---- MODULE Spec2Model ----
(***************************************************************************)
(* Model of the PDF question-answering scripts qna.py and uploadpdf.py:    *)
(* the chunker extract_text_from_pdf, the indexing handler "Process        *)
(* Document" and the retrieval function query_pinecone.                    *)
(*                                                                         *)
(* Text is modelled as a sequence of one-character strings, so that        *)
(* str.split(), " ".join() and len() are computed as Python computes them. *)
(***************************************************************************)
EXTENDS Integers, Sequences, FiniteSets, TLC

\* ------------------------------------------------------------------ bounds

\* Largest number of pages of an uploaded document.
MaxPages == 2
\* Largest chunk_size / chunk_overlap handed to the chunker as a function.
MaxChunkSize == 4
\* The sliders' ranges (300..2000 and 50..500 in the scripts), scaled down;
\* as in the scripts the overlap range reaches above the smallest chunk size.
SliderMinSize == 2
SliderMaxSize == 2
SliderMinOverlap == 1
SliderMaxOverlap == 3
\* The defaults of extract_text_from_pdf (1000 and 200), scaled down.
DefaultChunkSize == 3
DefaultChunkOverlap == 1
\* Largest number of documents processed in one session.
MaxDocs == 2

\* ------------------------------------------------------------------- text

NL == "\n"
SP == " "

\* str.isspace() for the characters of the model.
IsSpace(c) == c \in {SP, NL}

\* Texts a page can yield from page.get_text("text").
PageTexts ==
    { <<>>,
      <<"a", NL>>,
      <<"a", SP, "b", NL>>,
      <<"b", NL, "c", SP, "d", NL>> }

\* An uploaded PDF: its pages' texts, in page order.
Docs == UNION { [1..n -> PageTexts] : n \in 0..MaxPages }

Scripts == {"qna", "uploadpdf"}

Min(a, b) == IF a < b THEN a ELSE b

\* seq[lo:hi] of Python (0-based, hi exclusive, clipped to the length).
Slice(seq, lo, hi) ==
    LET h == Min(hi, Len(seq))
    IN IF lo >= h THEN <<>> ELSE SubSeq(seq, lo + 1, h)

\* str.split(): the maximal runs of non-whitespace characters, in order.
\* starts holds the position of each run's first character, nth(j) is the
\* j-th of them and stop(k) the last character of the run that starts at k.
Split(str) ==
    LET starts == { k \in 1..Len(str) :
                      ~IsSpace(str[k]) /\ (k = 1 \/ IsSpace(str[k - 1])) }
        nth(j) == CHOOSE k \in starts :
                      Cardinality({ s \in starts : s < k }) = j - 1
        stop(k) == CHOOSE e \in k..Len(str) :
                      /\ \A m \in k..e : ~IsSpace(str[m])
                      /\ (e = Len(str) \/ IsSpace(str[e + 1]))
    IN [j \in 1..Cardinality(starts) |-> SubSeq(str, nth(j), stop(nth(j)))]

RECURSIVE Join(_)
\* " ".join(words)
Join(words) ==
    IF words = <<>> THEN <<>>
    ELSE IF Len(words) = 1 THEN words[1]
    ELSE words[1] \o <<SP>> \o Join(Tail(words))

DigitChars == <<"0", "1", "2", "3", "4", "5", "6", "7", "8", "9">>

RECURSIVE StrInt(_)
\* str(n) for n >= 0
StrInt(n) ==
    IF n < 10 THEN <<DigitChars[n + 1]>>
    ELSE StrInt(n \div 10) \o <<DigitChars[(n % 10) + 1]>>

\* f"Page {page_num+1}: "   (page_num is 0-based)
PageHeader(page_num) ==
    <<"P", "a", "g", "e", SP>> \o StrInt(page_num + 1) \o <<":", SP>>

\* The text one page adds to full_text: header, page text, blank line.
PageBlock(doc, page_num) ==
    PageHeader(page_num) \o doc[page_num + 1] \o <<NL, NL>>

RECURSIVE PagesText(_, _)
\* full_text after the pages 0 .. n-1 were appended by the page loop.
PagesText(doc, n) ==
    IF n = 0 THEN <<>> ELSE PagesText(doc, n - 1) \o PageBlock(doc, n - 1)

\* ---------------------------------------------------------------- chunker

\* A chunker whose windows do not overlap: the step is chunk_size.
StrideNoOverlap(chunk_size, chunk_overlap) == chunk_size

\* The step of range(0, len(words), chunk_size - chunk_overlap).
Stride(chunk_size, chunk_overlap) == chunk_size - chunk_overlap

\* page_starts after the second page loop of qna.py: 0, then len(full_text)
\* as it stands each time the loop is about to append a page again (full_text
\* already holds every page from the first loop).
PageStarts(doc) ==
    LET n == Len(doc)
        first_pass == PagesText(doc, n)
    IN <<0>> \o [p \in 1..n |-> Len(first_pass \o PagesText(doc, p - 1))]

\* full_text that qna.py splits into words: both page loops append to it.
FullTextQna(doc) == PagesText(doc, Len(doc)) \o PagesText(doc, Len(doc))

\* full_text that uploadpdf.py splits into words.
FullTextUpload(doc) == PagesText(doc, Len(doc))

RECURSIVE FindPageFrom(_, _, _, _)
\* The inner loop "for page_num in range(len(page_starts)-1)": the first
\* page_num with page_starts[page_num] <= chunk_start < page_starts[page_num+1];
\* current_page keeps its value when no page_num matches.
FindPageFrom(page_starts, chunk_start, current_page, page_num) ==
    IF page_num >= Len(page_starts) - 1 THEN current_page
    ELSE IF /\ page_starts[page_num + 1] <= chunk_start
            /\ chunk_start < page_starts[page_num + 2]
         THEN page_num
         ELSE FindPageFrom(page_starts, chunk_start, current_page, page_num + 1)

\* A page search that stores the 1-based number of the page found.
FindPageOneBased(page_starts, chunk_start, current_page) ==
    LET found == FindPageFrom(page_starts, chunk_start, -1, 0)
    IN IF found = -1 THEN current_page ELSE found + 1

\* A page search whose current_page is set to 0 again for every chunk.
FindPageNoCarry(page_starts, chunk_start, current_page) ==
    FindPageFrom(page_starts, chunk_start, 0, 0)

FindPage(page_starts, chunk_start, current_page) ==
    FindPageFrom(page_starts, chunk_start, current_page, 0)

\* chunk_start = len(" ".join(words[:i]))
ChunkStart(words, i) == Len(Join(Slice(words, 0, i)))

\* A window that is one word short.
ChunkTextShort(words, i, chunk_size) ==
    Join(Slice(words, i, i + chunk_size - 1))

\* chunk_text = " ".join(words[i:i + chunk_size])
ChunkText(words, i, chunk_size) == Join(Slice(words, i, i + chunk_size))

RECURSIVE ChunkLoopQna(_, _, _, _, _, _, _)
\* The chunk loop of qna.py from window start i on (stride > 0).
ChunkLoopQna(words, page_starts, chunk_size, stride, i, current_page, chunks) ==
    IF i >= Len(words) THEN chunks
    ELSE LET page == FindPage(page_starts, ChunkStart(words, i), current_page)
         IN ChunkLoopQna(words, page_starts, chunk_size, stride, i + stride, page,
                Append(chunks, [text |-> ChunkText(words, i, chunk_size),
                                start_page |-> page]))

RECURSIVE ChunkLoopUploadNoTail(_, _, _, _, _)
\* A chunk loop that stops once a window has reached the last word.
ChunkLoopUploadNoTail(words, chunk_size, stride, i, chunks) ==
    IF i >= Len(words) \/ (i > 0 /\ i - stride + chunk_size >= Len(words))
    THEN chunks
    ELSE ChunkLoopUploadNoTail(words, chunk_size, stride, i + stride,
                               Append(chunks, ChunkText(words, i, chunk_size)))

RECURSIVE ChunkLoopUpload(_, _, _, _, _)
\* The chunk loop of uploadpdf.py from window start i on (stride > 0).
ChunkLoopUpload(words, chunk_size, stride, i, chunks) ==
    IF i >= Len(words) THEN chunks
    ELSE LET chunk == ChunkText(words, i, chunk_size)
         IN ChunkLoopUpload(words, chunk_size, stride, i + stride,
                IF chunk # <<>> THEN Append(chunks, chunk) ELSE chunks)

\* What extract_text_from_pdf returns when an exception was caught.
None == [ok |-> FALSE]

\* extract_text_from_pdf of qna.py.  range() raises ValueError on a step of
\* 0, which the except clause turns into None, and is empty on a step < 0.
ExtractQna(doc, chunk_size, chunk_overlap) ==
    LET stride == Stride(chunk_size, chunk_overlap)
        words == Split(FullTextQna(doc))
    IN IF stride = 0 THEN None
       ELSE [ok |-> TRUE,
             text |-> FullTextQna(doc),
             chunks |-> IF stride < 0 THEN <<>>
                        ELSE ChunkLoopQna(words, PageStarts(doc), chunk_size,
                                          stride, 0, 0, <<>>),
             total_pages |-> Len(doc),
             page_texts |-> doc]

\* extract_text_from_pdf of uploadpdf.py.
ExtractUpload(doc, chunk_size, chunk_overlap) ==
    LET stride == Stride(chunk_size, chunk_overlap)
        words == Split(FullTextUpload(doc))
    IN IF stride = 0 THEN None
       ELSE [ok |-> TRUE,
             text |-> FullTextUpload(doc),
             chunks |-> IF stride < 0 THEN <<>>
                        ELSE ChunkLoopUpload(words, chunk_size, stride, 0, <<>>),
             total_pages |-> Len(doc)]

\* extract_text_from_pdf(pdf_file, chunk_size, chunk_overlap) of script scr:
\* fitz.open raises on a file that is no readable PDF, and the except clause
\* returns None.
extract_text_from_pdf(scr, pdf_file, chunk_size, chunk_overlap) ==
    IF ~pdf_file.readable THEN None
    ELSE IF scr = "qna" THEN ExtractQna(pdf_file.pages, chunk_size, chunk_overlap)
    ELSE ExtractUpload(pdf_file.pages, chunk_size, chunk_overlap)

\* Number of page.get_text calls extract_text_from_pdf makes: each page loop
\* reads every page, and both loops run before range() is evaluated.
PagesRead(scr, pdf_file) ==
    IF ~pdf_file.readable THEN 0
    ELSE IF scr = "qna" THEN 2 * Len(pdf_file.pages) ELSE Len(pdf_file.pages)

\* The text of the k-th chunk (a record in qna.py, a string in uploadpdf.py).
TextOf(scr, chunk) == IF scr = "qna" THEN chunk.text ELSE chunk

\* ------------------------------------------------------------------ state

VARIABLES
    script,           \* which script runs: "qna" or "uploadpdf"
    chunk_size,       \* the "Chunk Size (words)" slider
    chunk_overlap,    \* the "Chunk Overlap (words)" slider
    uploaded_file,    \* the file in the uploader
    call_args,        \* chunk_size / chunk_overlap of the last chunker call
    pdf_data,         \* what the last extract_text_from_pdf call returned
    pages_read,       \* page.get_text calls of the last chunker call
    processed_files,  \* st.session_state.processed_files
    current_pdf,      \* st.session_state.current_pdf (0 is None), qna.py
    index,            \* the vectors held by the Pinecone index
    next_id,          \* the next uuid4 of a document
    log,              \* external calls made by the last handler, in order;
                      \* "embed_failed" / "upsert_failed": the call failed
                      \* while a document was indexed
    embed_outcome,    \* outcome of the question's embedding call
    results,          \* what the last query_pinecone call returned
    shown,            \* what the last handler displayed
    asked,            \* the radio's search scope, the scope used and the
                      \* selected documents of the last question
    query_filter,     \* the filter the last question handed to index.query
    query_errors,     \* st.error messages the last question displayed
    answer,           \* what the last generate_answer call returned
    uncaught,         \* an exception left the last question's handler
    top_k,            \* the "Number of chunks to retrieve" slider
    current_pdf_name, \* st.session_state.current_pdf_name, qna.py
    pdf_bytes,        \* st.session_state.pdf_bytes, qna.py
    pdf_display_page, \* st.session_state.pdf_display_page, qna.py
    dropped,          \* the document ids deleted from processed_files so far
    questions,        \* the number of questions asked so far
    topic_validated,  \* st.session_state.topic_validated, test.py
    examples_shown,   \* st.session_state.examples_shown, test.py
    quiz_data,        \* st.session_state.quiz_data (<<>> is None), test.py
    quiz_answered,    \* st.session_state.quiz_answered, test.py
    hint_shown,       \* st.session_state.hint_shown, test.py
    current_question_index,  \* st.session_state.current_question_index
                             \* (-1: the key is not in the session state)
    quiz_results,     \* st.session_state.quiz_results, the "correct" flags
    show_results,     \* st.session_state.show_results, test.py
    rendered          \* the index the last run of test.py looked up in
                      \* quiz_data, -1 when it did not reach the question

vars == <<script, chunk_size, chunk_overlap, uploaded_file, call_args, pdf_data,
          pages_read, processed_files, current_pdf, index, next_id, log,
          embed_outcome, results, shown, asked, query_filter, query_errors,
          answer, uncaught, top_k, current_pdf_name, pdf_bytes,
          pdf_display_page, dropped, questions, topic_validated, examples_shown,
          quiz_data, quiz_answered, hint_shown, current_question_index,
          quiz_results, show_results, rendered>>

\* pdf_data before any call of the chunker.
NotCalled == [ok |-> FALSE, called |-> FALSE]

\* The files a user can upload.
Files == [readable : {TRUE}, pages : Docs] \cup {[readable |-> FALSE, pages |-> <<>>]}

\* The session state of the viewer of qna.py, with the top_k slider, the
\* ids deleted and the questions asked so far.
viewerVars == <<top_k, current_pdf_name, pdf_bytes, pdf_display_page, dropped,
                questions>>

\* The active document of qna.py and the page shown.
activeVars == <<current_pdf, current_pdf_name, pdf_bytes, pdf_display_page>>

\* The session state of test.py.
quizVars == <<topic_validated, examples_shown, quiz_data, quiz_answered,
              hint_shown, current_question_index, quiz_results, show_results,
              rendered>>

sessionVars == <<processed_files, current_pdf, index, next_id, log,
                 embed_outcome, results, shown, asked, query_filter,
                 query_errors, answer, uncaught, viewerVars, quizVars>>

\* No question was asked, no query was sent.
NotAsked == [scope |-> "none", query_option |-> "none",
             selected_documents |-> {}]
NoQuery == [sent |-> FALSE, filtered |-> FALSE, ids |-> {}]
\* generate_answer was not called.
NoAnswer == [called |-> FALSE]

\* top_k, the "Number of Retrieved Chunks" slider (3..10), scaled down.
TopK == 1

\* st.session_state.pdf_bytes = None
NoBytes == [none |-> TRUE]

\* The viewer before any document was processed, the top_k slider at k.
ViewerInit(k) ==
    /\ top_k = k
    /\ current_pdf_name = "None"
    /\ pdf_bytes = NoBytes
    /\ pdf_display_page = 0
    /\ dropped = {}
    /\ questions = 0

\* The session state of test.py after its first lines.
QuizInit ==
    /\ topic_validated = FALSE
    /\ examples_shown = FALSE
    /\ quiz_data = <<>>
    /\ quiz_answered = FALSE
    /\ hint_shown = FALSE
    /\ current_question_index = -1
    /\ quiz_results = <<>>
    /\ show_results = FALSE
    /\ rendered = -1

SessionInit ==
    /\ ViewerInit(TopK)
    /\ QuizInit
    /\ processed_files = <<>>
    /\ current_pdf = 0
    /\ index = {}
    /\ next_id = 1
    /\ log = <<>>
    /\ embed_outcome = "none"
    /\ results = <<>>
    /\ shown = "nothing"
    /\ asked = NotAsked
    /\ query_filter = NoQuery
    /\ query_errors = <<>>
    /\ answer = NoAnswer
    /\ uncaught = FALSE

\* ------------------------------------------- the chunker as a function

InitChunk ==
    /\ script \in Scripts
    /\ uploaded_file \in Files
    /\ chunk_size \in 1..MaxChunkSize
    /\ chunk_overlap \in 0..MaxChunkSize
    /\ call_args = [chunk_size |-> 0, chunk_overlap |-> 0]
    /\ pdf_data = NotCalled
    /\ pages_read = 0
    /\ SessionInit

\* One call extract_text_from_pdf(uploaded_file, chunk_size, chunk_overlap).
ExtractCall ==
    /\ pdf_data = NotCalled
    /\ call_args' = [chunk_size |-> chunk_size, chunk_overlap |-> chunk_overlap]
    /\ pdf_data' = extract_text_from_pdf(script, uploaded_file, chunk_size, chunk_overlap)
    /\ pages_read' = PagesRead(script, uploaded_file)
    /\ UNCHANGED <<script, chunk_size, chunk_overlap, uploaded_file, sessionVars>>

NextChunk == ExtractCall

SpecChunk == InitChunk /\ [][NextChunk]_vars

\* ------------------------------------------------ indexing and retrieval

\* batch_size of store_text_in_pinecone.
BatchSize == 100

\* The vector store_text_in_pinecone builds for chunk number n (0-based) of
\* the chunk list: id "<document_id>_chunk_<n>" and the chunk's metadata.
VectorOf(scr, metadata, document_id, n, chunk) ==
    IF scr = "qna"
    THEN [id |-> <<document_id, n>>, document_id |-> document_id,
          custom_name |-> metadata.custom_name,
          text |-> chunk.text, start_page |-> chunk.start_page]
    ELSE [id |-> <<document_id, n>>, document_id |-> document_id,
          custom_name |-> metadata.custom_name,
          text |-> chunk]

\* The vectors list of the batch starting at chunk i: the chunks of the batch
\* whose embedding call returned a vector (failed holds the 0-based numbers
\* of the chunks whose embedding call failed).
\* A batch loop that numbers the chunks of every batch from 0.
BatchVectorsLocalIds(scr, chunks, metadata, document_id, i, failed) ==
    { VectorOf(scr, metadata, document_id, n - i, chunks[n + 1]) :
        n \in { m \in i..(Min(i + BatchSize, Len(chunks)) - 1) : m \notin failed } }

\* A batch loop that gives up the rest of a batch at the first chunk whose
\* embedding call failed.
BatchVectorsUntilFailure(scr, chunks, metadata, document_id, i, failed) ==
    { VectorOf(scr, metadata, document_id, n, chunks[n + 1]) :
        n \in { m \in i..(Min(i + BatchSize, Len(chunks)) - 1) :
                  \A k \in i..m : k \notin failed } }

BatchVectors(scr, chunks, metadata, document_id, i, failed) ==
    { VectorOf(scr, metadata, document_id, n, chunks[n + 1]) :
        n \in { m \in i..(Min(i + BatchSize, Len(chunks)) - 1) : m \notin failed } }

RECURSIVE StoreFrom(_, _, _, _, _, _, _, _, _)
\* The batch loop of store_text_in_pinecone from batch start i on.  raise_at
\* is the batch start whose upsert raises (-1: none does).  Yields the index,
\* the calls made, each with its outcome, and the return value.
StoreFrom(scr, chunks, metadata, document_id, failed, raise_at, i, idx, calls) ==
    IF i >= Len(chunks) THEN [index |-> idx, calls |-> calls, success |-> TRUE]
    ELSE LET vectors == BatchVectors(scr, chunks, metadata, document_id, i, failed)
             embeds == [n \in 1..(Min(i + BatchSize, Len(chunks)) - i) |->
                           IF (i + n - 1) \in failed THEN "embed_failed"
                           ELSE "embed"]
         IN IF vectors = {}
            THEN StoreFrom(scr, chunks, metadata, document_id, failed, raise_at,
                           i + BatchSize, idx, calls \o embeds)
            ELSE IF raise_at = i
            THEN [index |-> idx,
                  calls |-> calls \o embeds \o <<"upsert_failed">>,
                  success |-> FALSE]
            ELSE StoreFrom(scr, chunks, metadata, document_id, failed, raise_at,
                           i + BatchSize,
                           {v \in idx : v.id \notin {w.id : w \in vectors}}
                               \cup vectors,
                           calls \o embeds \o <<"upsert">>)

store_text_in_pinecone(scr, chunks, metadata, document_id, failed, raise_at, idx) ==
    StoreFrom(scr, chunks, metadata, document_id, failed, raise_at, 0, idx, <<>>)

\* The embedding failures tried for n chunks: no call fails, the call for
\* the first chunk fails, every call fails.
FailedSets(n) == {{}} \cup { {k} : k \in 0..(Min(n, 1) - 1) } \cup { 0..(n - 1) }
\* The upsert failures tried for n chunks: none, or the upsert of one batch.
RaiseAts(n) == {-1} \cup { i \in 0..(n - 1) : i % BatchSize = 0 }

\* generate_embedding: the vector, or None when the call raised; a call that
\* returns an empty embedding hands that empty list back.
generate_embedding(outcome) ==
    IF outcome = "ok" THEN "vector"
    ELSE IF outcome = "raise" THEN "None"
    ELSE "empty"

\* A query_pinecone that does not test the embedding it was handed.
QueryVectorNeverMissing(query_vector) == FALSE

\* A function body without its try / except.
ExceptNothing(raised) == raised

\* "except Exception as e:" around the body of generate_embedding,
\* query_pinecone and generate_answer: tells whether an exception raised in
\* the body leaves the function.
ExceptException(raised) == FALSE

\* The st.error of generate_embedding's except clause.
EmbeddingErrors(outcome) ==
    IF outcome = "raise" /\ ~ExceptException(TRUE)
    THEN <<"Failed to generate embedding">> ELSE <<>>

\* filter_query of query_pinecone: None unless document_ids is non-empty.
FilterQuery(document_ids) ==
    IF document_ids # {}
    THEN [sent |-> TRUE, filtered |-> TRUE, ids |-> document_ids]
    ELSE [sent |-> TRUE, filtered |-> FALSE, ids |-> {}]

\* "if not query_vector: return []" of query_pinecone.
QueryVectorMissing(query_vector) == query_vector \in {"None", "empty"}

\* An index.query that ignores the filter.
CandidatesUnfiltered(idx, document_ids) == idx

\* The vectors a query matches.  query_pinecone sends no filter when
\* document_ids is None or empty; both are the empty set here.
Candidates(idx, document_ids) ==
    IF document_ids = {} THEN idx
    ELSE { v \in idx : v.document_id \in document_ids }

RECURSIVE Ranked(_, _)
\* The rankings of exactly n distinct vectors of cands.
Ranked(cands, n) ==
    IF n = 0 THEN {<<>>}
    ELSE UNION { { Append(m, v) : v \in cands \ { m[k] : k \in 1..Len(m) } } :
                 m \in Ranked(cands, n - 1) }

\* What index.query can return for top_k = k: up to k distinct matching
\* vectors, ranked.
Matches(idx, document_ids, k) ==
    LET cands == Candidates(idx, document_ids)
    IN UNION { Ranked(cands, n) : n \in 0..Min(k, Cardinality(cands)) }

\* A query_pinecone that asks for the embedding a second time when the
\* first call failed.
query_pinecone_retrying(embedding, query_raises, matches, document_ids) ==
    IF QueryVectorMissing(generate_embedding(embedding))
    THEN [results |-> <<>>, calls |-> <<"embed", "embed">>, filter |-> NoQuery,
          errors |-> EmbeddingErrors(embedding) \o EmbeddingErrors(embedding),
          raised |-> FALSE]
    ELSE IF query_raises
    THEN [results |-> <<>>, calls |-> <<"embed", "query">>,
          filter |-> FilterQuery(document_ids),
          errors |-> <<"Error querying Pinecone">>, raised |-> FALSE]
    ELSE [results |-> matches, calls |-> <<"embed", "query">>,
          filter |-> FilterQuery(document_ids), errors |-> <<>>,
          raised |-> FALSE]

\* query_pinecone(question, top_k, document_ids): the list returned, the
\* external calls made, the filter handed to index.query, the st.error
\* messages displayed and whether an exception left the function.  embedding
\* is the outcome of the embedding call, query_raises tells whether
\* index.query raises, matches is what it returns otherwise.
query_pinecone(embedding, query_raises, matches, document_ids) ==
    LET query_vector == generate_embedding(embedding)
    IN IF ExceptException(embedding = "raise")
       THEN [results |-> <<>>, calls |-> <<"embed">>, filter |-> NoQuery,
             errors |-> <<>>, raised |-> TRUE]
       ELSE IF QueryVectorMissing(query_vector)
       THEN [results |-> <<>>, calls |-> <<"embed">>, filter |-> NoQuery,
             errors |-> EmbeddingErrors(embedding), raised |-> FALSE]
       ELSE IF query_raises
       THEN [results |-> <<>>, calls |-> <<"embed", "query">>,
             filter |-> FilterQuery(document_ids),
             errors |-> EmbeddingErrors(embedding)
                          \o IF ExceptException(TRUE) THEN <<>>
                             ELSE <<"Error querying Pinecone">>,
             raised |-> ExceptException(TRUE)]
       ELSE [results |-> matches, calls |-> <<"embed", "query">>,
             filter |-> FilterQuery(document_ids),
             errors |-> EmbeddingErrors(embedding), raised |-> FALSE]

\* ------------------------------------------------------- answer assembly

\* chunk.metadata.get('custom_name', chunk.metadata.get('document_title',
\* 'Unknown document'))
SourceName(chunk) ==
    IF "custom_name" \in DOMAIN chunk THEN chunk.custom_name
    ELSE IF "document_title" \in DOMAIN chunk THEN chunk.document_title
    ELSE "Unknown document"

\* chunk.metadata.get("start_page", 0)
StartPage(chunk) ==
    IF "start_page" \in DOMAIN chunk THEN chunk.start_page ELSE 0

\* chunk.metadata.get("custom_name")
CustomName(chunk) ==
    IF "custom_name" \in DOMAIN chunk THEN chunk.custom_name ELSE "None"

\* A context assembled from the chunks in reverse order.
ContextReversed(relevant_chunks) ==
    LET F[k \in 0..Len(relevant_chunks)] ==
            IF k = 0 THEN <<>>
            ELSE IF k = 1 THEN relevant_chunks[1].text
            ELSE relevant_chunks[k].text \o <<NL, NL>> \o F[k - 1]
    IN F[Len(relevant_chunks)]

RECURSIVE JoinSep(_, _)
\* sep.join(parts) for a list of strings (each a sequence) and a string sep
JoinSep(parts, sep) ==
    IF parts = <<>> THEN <<>>
    ELSE IF Len(parts) = 1 THEN parts[1]
    ELSE parts[1] \o sep \o JoinSep(Tail(parts), sep)

\* "\n\n".join([chunk.metadata["text"] for chunk in relevant_chunks])
Context(relevant_chunks) ==
    JoinSep([k \in 1..Len(relevant_chunks) |-> relevant_chunks[k].text],
            <<NL, NL>>)

\* The source names as a list with one entry per chunk.
SourceNamesPerChunk(relevant_chunks) ==
    { [k \in 1..Len(relevant_chunks) |-> SourceName(relevant_chunks[k])] }

\* The orders in which the elements of a set can be iterated.
Orders(set) ==
    { o \in [1..Cardinality(set) -> set] :
        \A i, j \in 1..Cardinality(set) : i # j => o[i] # o[j] }

\* sources = set([...]) as ', '.join(sources) can iterate it: the distinct
\* source names of the chunks, in any order.
SourceOrders(relevant_chunks) ==
    Orders({ SourceName(relevant_chunks[k]) : k \in 1..Len(relevant_chunks) })

RECURSIVE SortedList(_)
\* sorted(set) for a set of integers
SortedList(set) ==
    IF set = {} THEN <<>>
    ELSE LET least == CHOOSE x \in set : \A y \in set : x <= y
         IN <<least>> \o SortedList(set \ {least})

\* The start pages of a document's chunks as a list in result order.
PagesInResultOrder(relevant_chunks, doc_id) ==
    LET F[k \in 0..Len(relevant_chunks)] ==
            IF k = 0 THEN <<>>
            ELSE IF relevant_chunks[k].document_id = doc_id
                 THEN Append(F[k - 1], StartPage(relevant_chunks[k]))
                 ELSE F[k - 1]
    IN F[Len(relevant_chunks)]

\* page_info[doc_id]["pages"]: the page set of a document, sorted.
Pages(relevant_chunks, doc_id) ==
    SortedList({ StartPage(relevant_chunks[k]) :
                   k \in { j \in 1..Len(relevant_chunks) :
                             relevant_chunks[j].document_id = doc_id } })

\* page_info of generate_answer (qna.py): one entry per document id met in
\* the chunks, with the custom name of its first chunk and its pages.
PageInfo(relevant_chunks) ==
    [ doc_id \in { relevant_chunks[k].document_id :
                     k \in 1..Len(relevant_chunks) } |->
        LET first == CHOOSE k \in 1..Len(relevant_chunks) :
                       /\ relevant_chunks[k].document_id = doc_id
                       /\ \A j \in 1..(k - 1) :
                            relevant_chunks[j].document_id # doc_id
        IN [name |-> CustomName(relevant_chunks[first]),
            pages |-> Pages(relevant_chunks, doc_id)] ]

\* f"page {p+1}" for the pages of a document, joined by ", "
PageRefs(pages) ==
    JoinSep([k \in 1..Len(pages) |-> <<"page ">> \o StrInt(pages[k] + 1)],
            <<", ">>)

\* sources_text: the footer appended to the answer.  names is the order in
\* which the sources set is iterated; qna.py adds the page references when
\* the only document of page_info is the active one.
SourcesText(scr, names, page_info, current) ==
    <<"\n\nSources: ">>
    \o JoinSep([k \in 1..Len(names) |-> <<names[k]>>], <<", ">>)
    \o IF scr = "qna" /\ Cardinality(DOMAIN page_info) = 1 /\ current # 0
          /\ DOMAIN page_info = {current}
       THEN <<" (">> \o PageRefs(page_info[current].pages) \o <<")">>
       ELSE <<>>

\* The fixed answer of generate_answer's except clause.
ErrorAnswer == <<"Sorry, I encountered an error while generating your answer.">>

\* generate_answer(question, relevant_chunks): the answer, page_info (empty
\* in uploadpdf.py, which has none), the context handed to the chat call,
\* the st.error messages and whether an exception left the function.
\* chat_raises tells whether the chat call raises, response_text is what it
\* returns otherwise, names the order in which sources is iterated and
\* current is st.session_state.current_pdf.
generate_answer(scr, relevant_chunks, chat_raises, response_text, names, current) ==
    LET page_info == IF scr = "qna" THEN PageInfo(relevant_chunks) ELSE <<>>
    IN IF chat_raises
       THEN [answer |-> ErrorAnswer, page_info |-> <<>>,
             context |-> Context(relevant_chunks),
             errors |-> IF ExceptException(TRUE) THEN <<>>
                        ELSE <<"Error generating answer">>,
             raised |-> ExceptException(TRUE)]
       ELSE [answer |-> response_text
                          \o SourcesText(scr, names, page_info, current),
             page_info |-> page_info,
             context |-> Context(relevant_chunks),
             errors |-> <<>>, raised |-> FALSE]

\* ---------------------------------------------------------- the session

\* The files uploaded in a session: one that is no PDF and a PDF of one page
\* without text.
AppFiles ==
    { [readable |-> FALSE, pages |-> <<>>],
      [readable |-> TRUE, pages |-> << <<>> >>] }

\* The sliders are moved in uploadpdf.py only, where the handler reads them;
\* in qna.py they stay at their initial values.
Init ==
    /\ script \in Scripts
    /\ uploaded_file \in AppFiles
    /\ chunk_size \in IF script = "qna" THEN {DefaultChunkSize}
                      ELSE SliderMinSize..SliderMaxSize
    /\ chunk_overlap \in IF script = "qna" THEN {DefaultChunkOverlap}
                         ELSE SliderMinOverlap..SliderMaxOverlap
    /\ call_args = [chunk_size |-> 0, chunk_overlap |-> 0]
    /\ pdf_data = NotCalled
    /\ pages_read = 0
    /\ SessionInit

\* The arguments the "Process Document" handler hands to the chunker:
\* uploadpdf.py passes the sliders, qna.py passes nothing (the defaults).
HandlerArgs ==
    IF script = "qna"
    THEN [chunk_size |-> DefaultChunkSize, chunk_overlap |-> DefaultChunkOverlap]
    ELSE [chunk_size |-> chunk_size, chunk_overlap |-> chunk_overlap]

\* Most questions asked in a session.
MaxAsked == 1

\* The names typed into the "Document Name" box: the n-th document
\* processed in a session is given the n-th name.
DocumentNames == <<"A", "B", "C", "D">>

\* The external failures tried while a session indexes n chunks: embedding
\* calls fail and every upsert succeeds, or every embedding call succeeds
\* and one upsert raises.
IndexingFaults(n) ==
    { [failed |-> f, raise_at |-> -1] : f \in FailedSets(n) }
    \cup { [failed |-> {}, raise_at |-> i] : i \in RaiseAts(n) \ {-1} }

\* A handler that records a document whose extraction failed.
ExtractionFailedRecorded ==
    /\ shown' = "extract_error"
    /\ log' = <<>>
    /\ processed_files' = processed_files @@
           (next_id :> [custom_name |-> DocumentNames[next_id],
                        chunks |-> 0, pages |-> 0])
    /\ UNCHANGED <<index, activeVars>>

\* "if pdf_data:" is false: the handler does nothing after the chunker's
\* own error message.
ExtractionFailed ==
    /\ shown' = "extract_error"
    /\ log' = <<>>
    /\ UNCHANGED <<processed_files, index, activeVars>>

\* What the handler records in processed_files for a document: qna.py keeps
\* the bytes of the file as well.
FileInfo(scr, custom_name, data, file) ==
    IF scr = "qna"
    THEN [custom_name |-> custom_name, chunks |-> Len(data.chunks),
          pages |-> data.total_pages, pdf_bytes |-> file]
    ELSE [custom_name |-> custom_name, chunks |-> Len(data.chunks),
          pages |-> data.total_pages]

\* qna.py makes a document the active one and shows the given page.
SetCurrent(doc_id, name, bytes, page) ==
    /\ current_pdf' = doc_id
    /\ current_pdf_name' = name
    /\ pdf_bytes' = bytes
    /\ pdf_display_page' = page

\* The handler of the "Process Document" button.
ProcessDocumentHandler ==
    /\ \E data \in { extract_text_from_pdf(script, uploaded_file,
                           HandlerArgs.chunk_size, HandlerArgs.chunk_overlap) } :
       LET document_id == next_id
           custom_name == DocumentNames[document_id]
           args == HandlerArgs
       IN /\ next_id' = next_id + 1
          /\ call_args' = args
          /\ pdf_data' = data
          /\ pages_read' = PagesRead(script, uploaded_file)
          /\ embed_outcome' = "none"
          /\ results' = <<>>
          /\ asked' = NotAsked
          /\ query_filter' = NoQuery
          /\ query_errors' = <<>>
          /\ answer' = NoAnswer
          /\ uncaught' = FALSE
          /\ IF ~data.ok
             THEN ExtractionFailed
             ELSE \E faults \in IndexingFaults(Len(data.chunks)) :
                    \E st \in { store_text_in_pinecone(script, data.chunks,
                                     [custom_name |-> custom_name],
                                     document_id, faults.failed,
                                     faults.raise_at, index) } :
                       /\ index' = st.index
                       /\ log' = st.calls
                       /\ IF st.success
                          THEN /\ processed_files' = processed_files @@
                                      (document_id :>
                                          FileInfo(script, custom_name, data,
                                                   uploaded_file))
                               /\ IF script = "qna"
                                  THEN SetCurrent(document_id, custom_name,
                                                  uploaded_file, 0)
                                  ELSE UNCHANGED activeVars
                               /\ shown' = "processed_ok"
                          ELSE /\ shown' = "index_failed"
                               /\ UNCHANGED <<processed_files, activeVars>>
    /\ UNCHANGED <<script, chunk_size, chunk_overlap, uploaded_file, top_k,
                   dropped, questions, quizVars>>

\* The "Process Document" button, pressed for at most MaxDocs documents.
ProcessDocument ==
    /\ next_id <= MaxDocs
    /\ ProcessDocumentHandler

\* The search scopes a script offers.
QueryOptions ==
    IF script = "qna"
    THEN {"Current Document", "Selected Documents", "All Documents"}
    ELSE {"Selected Documents", "All Documents"}

\* selected_documents for a scope: the active document, or the multiselect's
\* choice; "Current Document" falls back to the multiselect when no document
\* is active.
SelectedDocuments(option, multiselect) ==
    IF option = "Current Document" /\ current_pdf # 0 THEN {current_pdf}
    ELSE IF option = "All Documents" THEN {}
    ELSE multiselect

\* query_option after the fall-back of "Current Document".
EffectiveOption(option) ==
    IF option = "Current Document" /\ current_pdf = 0 THEN "Selected Documents"
    ELSE option

\* filter_doc_ids of the question handler (None and the empty list are both
\* the empty set): qna.py passes the selection unless the scope is "All
\* Documents", uploadpdf.py passes it when the scope is "Selected Documents"
\* and the selection is not empty.
FilterDocIds(scr, query_option, selected_documents) ==
    IF scr = "qna"
    THEN IF query_option # "All Documents" THEN selected_documents ELSE {}
    ELSE IF query_option = "Selected Documents" /\ selected_documents # {}
         THEN selected_documents ELSE {}

\* What the handler holds after generate_answer returned a: its answer and
\* page_info, with the context and the response.text of the chat call (none
\* when the call raised).
Returned(a, chat_raises, response_text) ==
    [called |-> TRUE, answer |-> a.answer, page_info |-> a.page_info,
     context |-> a.context,
     response |-> IF chat_raises THEN <<>> ELSE response_text]

\* A handler that hands every result list to generate_answer.
HasResultsAlways(res) == TRUE

\* "if results:" of the question handler.
HasResults(res) == res # <<>>

\* What response.text of the chat call can be.
ResponseTexts == { <<"t">> }

\* What the question handler of qna.py does to the viewer once
\* generate_answer returned a ("if highlight_enabled:"): an answer drawn from
\* the active document alone shows its first referenced page; an answer
\* drawn from several documents makes the document of the first result the
\* active one, if it is in processed_files, and shows its first referenced
\* page.
ShowAnswerPage(relevant_chunks, a, highlight_enabled) ==
    LET page_info == a.page_info
        doc_id == relevant_chunks[1].document_id
    IN IF script # "qna" \/ a.raised \/ ~highlight_enabled
          \/ DOMAIN page_info = {}
       THEN UNCHANGED activeVars
       ELSE IF Cardinality(DOMAIN page_info) = 1
       THEN /\ pdf_display_page' =
                  IF doc_id = current_pdf THEN page_info[doc_id].pages[1]
                  ELSE pdf_display_page
            /\ UNCHANGED <<current_pdf, current_pdf_name, pdf_bytes>>
       ELSE IF doc_id \in DOMAIN processed_files
       THEN SetCurrent(doc_id, page_info[doc_id].name,
                       processed_files[doc_id].pdf_bytes,
                       page_info[doc_id].pages[1])
       ELSE UNCHANGED activeVars

\* The question handler found nothing to do: no query, nothing recorded.
NothingAsked(message) ==
    /\ shown' = message
    /\ log' = <<>>
    /\ embed_outcome' = "none"
    /\ results' = <<>>
    /\ query_filter' = NoQuery
    /\ query_errors' = <<>>
    /\ answer' = NoAnswer
    /\ uncaught' = FALSE
    /\ UNCHANGED activeVars

\* A question typed into the question box, one of at most MaxAsked.
AskQuestion ==
    /\ questions < MaxAsked
    /\ questions' = questions + 1
    /\ call_args' = [chunk_size |-> 0, chunk_overlap |-> 0]
    /\ pdf_data' = NotCalled
    /\ pages_read' = 0
    /\ IF DOMAIN processed_files = {}
       THEN asked' = NotAsked /\ NothingAsked("upload_first")
       ELSE \E option \in QueryOptions :
            \E multiselect \in
                  IF EffectiveOption(option) = "Selected Documents"
                  THEN SUBSET (DOMAIN processed_files) ELSE {{}} :
              LET query_option == EffectiveOption(option)
                  selected_documents == SelectedDocuments(option, multiselect)
                  filter_doc_ids ==
                      FilterDocIds(script, query_option, selected_documents)
              IN /\ asked' = [scope |-> option, query_option |-> query_option,
                              selected_documents |-> selected_documents]
                 /\ IF script = "qna" /\ filter_doc_ids = {}
                       /\ query_option # "All Documents"
                    THEN NothingAsked("select_warning")
                    ELSE \E embedding \in {"ok", "raise", "empty"} :
                         \E query_raises \in
                               IF embedding = "ok" THEN BOOLEAN ELSE {FALSE} :
                         \E matches \in
                               IF embedding = "ok" /\ ~query_raises
                               THEN Matches(index, filter_doc_ids, top_k)
                               ELSE {<<>>} :
                         \E chat_raises \in
                               IF matches # <<>> THEN BOOLEAN ELSE {FALSE} :
                         \E response_text \in ResponseTexts :
                         \E names \in
                               IF chat_raises THEN {<<>>}
                               ELSE SourceOrders(matches) :
                         \E highlight_enabled \in
                               IF /\ script = "qna" /\ ~chat_raises
                                  /\ Cardinality({ matches[k].document_id :
                                                     k \in 1..Len(matches) }) > 1
                               THEN BOOLEAN ELSE {TRUE} :
                         \E r \in { query_pinecone(embedding, query_raises,
                                                   matches, filter_doc_ids) } :
                         \E a \in { generate_answer(script, r.results, chat_raises,
                                                    response_text, names,
                                                    current_pdf) } :
                              /\ embed_outcome' = embedding
                              /\ results' = r.results
                              /\ query_filter' = r.filter
                              /\ IF r.raised
                                 THEN /\ log' = r.calls
                                      /\ query_errors' = r.errors
                                      /\ answer' = NoAnswer
                                      /\ uncaught' = TRUE
                                      /\ shown' = "exception"
                                      /\ UNCHANGED activeVars
                                 ELSE IF HasResults(r.results)
                                 THEN /\ log' = r.calls \o <<"chat">>
                                      /\ query_errors' = r.errors \o a.errors
                                      /\ answer' = Returned(a, chat_raises,
                                                             response_text)
                                      /\ uncaught' = a.raised
                                      /\ shown' = IF a.raised THEN "exception"
                                                  ELSE IF chat_raises
                                                  THEN "error_answer"
                                                  ELSE "answer"
                                      /\ ShowAnswerPage(r.results, a, highlight_enabled)
                                 ELSE /\ log' = r.calls
                                      /\ query_errors' = r.errors
                                      /\ answer' = NoAnswer
                                      /\ uncaught' = FALSE
                                      /\ shown' = IF query_option # "All Documents"
                                                     /\ (script = "qna"
                                                         \/ filter_doc_ids # {})
                                                  THEN "no_info_selected"
                                                  ELSE "no_info"
                                      /\ UNCHANGED activeVars
    /\ UNCHANGED <<script, chunk_size, chunk_overlap, uploaded_file,
                   processed_files, index, next_id, top_k, dropped, quizVars>>

Next == ProcessDocument \/ AskQuestion

Spec == Init /\ [][Next]_vars

\* ---------------------------------------- generate_answer as a function

\* Longest result list handed to generate_answer.
MaxResults == 3

\* Matches index.query can return: chunks of documents 1 and 2, both named
\* "A", of document 3 named "B", and a vector whose metadata has neither a
\* custom name nor a start page.
AnswerChunks ==
    { [document_id |-> 1, custom_name |-> "A", text |-> <<"x">>, start_page |-> 1],
      [document_id |-> 1, custom_name |-> "A", text |-> <<"y">>, start_page |-> 0],
      [document_id |-> 2, custom_name |-> "A", text |-> <<"z">>, start_page |-> 0],
      [document_id |-> 3, custom_name |-> "B", text |-> <<"x">>, start_page |-> 1],
      [document_id |-> 4, document_title |-> "B", text |-> <<"w">>] }

RECURSIVE ResultLists(_)
\* The result lists of exactly n matches.
ResultLists(n) ==
    IF n = 0 THEN {<<>>}
    ELSE { Append(l, c) : l \in ResultLists(n - 1), c \in AnswerChunks }

\* What response.text can be in a call of its own.
AnswerTexts == { <<>>, <<"t">>, <<"t", "A">> }

InitAnswer ==
    /\ script \in Scripts
    /\ uploaded_file = [readable |-> FALSE, pages |-> <<>>]
    /\ chunk_size = DefaultChunkSize
    /\ chunk_overlap = DefaultChunkOverlap
    /\ call_args = [chunk_size |-> 0, chunk_overlap |-> 0]
    /\ pdf_data = NotCalled
    /\ pages_read = 0
    /\ processed_files = <<>>
    /\ current_pdf \in IF script = "qna" THEN {0, 1} ELSE {0}
    /\ index = {}
    /\ next_id = 1
    /\ log = <<>>
    /\ embed_outcome = "none"
    /\ results \in UNION { ResultLists(n) : n \in 0..MaxResults }
    /\ shown = "nothing"
    /\ asked = NotAsked
    /\ query_filter = NoQuery
    /\ query_errors = <<>>
    /\ answer = NoAnswer
    /\ uncaught = FALSE
    /\ ViewerInit(TopK)
    /\ QuizInit

\* One call generate_answer(question, results).
AnswerCall ==
    /\ answer = NoAnswer
    /\ \E chat_raises \in BOOLEAN :
       \E response_text \in IF chat_raises THEN {<<>>} ELSE AnswerTexts :
       \E names \in IF chat_raises THEN {<<>>} ELSE SourceOrders(results) :
       \E a \in { generate_answer(script, results, chat_raises, response_text,
                                  names, current_pdf) } :
          /\ log' = <<"chat">>
          /\ answer' = Returned(a, chat_raises, response_text)
          /\ query_errors' = a.errors
          /\ uncaught' = a.raised
    /\ UNCHANGED <<script, chunk_size, chunk_overlap, uploaded_file, call_args,
                   pdf_data, pages_read, processed_files, current_pdf, index,
                   next_id, embed_outcome, results, shown, asked, query_filter,
                   viewerVars, quizVars>>

NextAnswer == AnswerCall

SpecAnswer == InitAnswer /\ [][NextAnswer]_vars

\* --------------------------------- store_text_in_pinecone as a function

\* The lengths of the chunk lists stored: none, less than a batch, a full
\* batch, and lists that need two and three batches.
StoreSizes ==
    { 0, 1, 2, 3, BatchSize, BatchSize + 1, BatchSize + 2, 2 * BatchSize,
      2 * BatchSize + 1 }

\* A chunk list of n chunks with distinct texts.
StoreChunks(scr, n) ==
    [k \in 1..n |-> IF scr = "qna"
                    THEN [text |-> StrInt(k - 1), start_page |-> (k - 1) \div 2]
                    ELSE StrInt(k - 1)]

\* The embedding failures tried in a call of its own: those of FailedSets,
\* the last chunk, and every chunk of the first batch.
StoreFailedSets(n) ==
    FailedSets(n) \cup { {k} : k \in {n - 1} \cap (0..(n - 1)) }
                  \cup { 0..(Min(n, BatchSize) - 1) }

InitStore ==
    /\ script \in Scripts
    /\ uploaded_file = [readable |-> FALSE, pages |-> <<>>]
    /\ chunk_size = DefaultChunkSize
    /\ chunk_overlap = DefaultChunkOverlap
    /\ call_args = [chunk_size |-> 0, chunk_overlap |-> 0]
    /\ \E n \in StoreSizes :
          pdf_data = [ok |-> TRUE, chunks |-> StoreChunks(script, n),
                      total_pages |-> 1]
    /\ pages_read = 0
    /\ SessionInit

\* One call store_text_in_pinecone(chunks, metadata, document_id).
StoreCall ==
    /\ shown = "nothing"
    /\ \E failed \in StoreFailedSets(Len(pdf_data.chunks)),
          raise_at \in RaiseAts(Len(pdf_data.chunks)) :
       \E st \in { store_text_in_pinecone(script, pdf_data.chunks,
                        [custom_name |-> DocumentNames[next_id]],
                        next_id, failed, raise_at, index) } :
          /\ index' = st.index
          /\ log' = st.calls
          /\ shown' = IF st.success THEN "stored" ELSE "store_failed"
    /\ UNCHANGED <<script, chunk_size, chunk_overlap, uploaded_file, call_args,
                   pdf_data, pages_read, processed_files, current_pdf, next_id,
                   embed_outcome, results, asked, query_filter, query_errors,
                   answer, uncaught, viewerVars, quizVars>>

NextStore == StoreCall

SpecStore == InitStore /\ [][NextStore]_vars

\* ------------------------------------------------- moving the sliders

\* The values the "Chunk Size (words)" slider can be moved to.
SliderSizes == (SliderMinSize..SliderMaxSize) \cup {DefaultChunkSize}

\* The values the "Chunk Overlap (words)" slider can be moved to.
SliderOverlaps == (SliderMinOverlap..SliderMaxOverlap) \cup {DefaultChunkOverlap}

\* Both sliders stand at their default values when a session starts.
InitSettings ==
    /\ script \in Scripts
    /\ uploaded_file \in AppFiles
    /\ chunk_size = DefaultChunkSize
    /\ chunk_overlap = DefaultChunkOverlap
    /\ call_args = [chunk_size |-> 0, chunk_overlap |-> 0]
    /\ pdf_data = NotCalled
    /\ pages_read = 0
    /\ SessionInit

\* A run of the script in which no button is pressed and the question box is
\* empty: no handler runs and nothing is displayed.
NoHandler ==
    /\ call_args' = [chunk_size |-> 0, chunk_overlap |-> 0]
    /\ pdf_data' = NotCalled
    /\ pages_read' = 0
    /\ log' = <<>>
    /\ embed_outcome' = "none"
    /\ results' = <<>>
    /\ shown' = "nothing"
    /\ asked' = NotAsked
    /\ query_filter' = NoQuery
    /\ query_errors' = <<>>
    /\ answer' = NoAnswer
    /\ uncaught' = FALSE

\* A run that handles a button of the document list: neither the chunker nor
\* the question handler runs.
ListHandler(calls, message) ==
    /\ call_args' = [chunk_size |-> 0, chunk_overlap |-> 0]
    /\ pdf_data' = NotCalled
    /\ pages_read' = 0
    /\ log' = calls
    /\ embed_outcome' = "none"
    /\ results' = <<>>
    /\ shown' = message
    /\ asked' = NotAsked
    /\ query_filter' = NoQuery
    /\ query_errors' = <<>>
    /\ answer' = NoAnswer
    /\ uncaught' = FALSE

\* The user moves the chunk sliders; the script runs again with the new
\* values.
MoveSliders ==
    /\ \E size \in SliderSizes, overlap \in SliderOverlaps :
          /\ <<size, overlap>> # <<chunk_size, chunk_overlap>>
          /\ chunk_size' = size
          /\ chunk_overlap' = overlap
    /\ NoHandler
    /\ UNCHANGED <<script, uploaded_file, processed_files, index, next_id,
                   activeVars, top_k, dropped, questions, quizVars>>

NextSettings == ProcessDocument \/ MoveSliders

SpecSettings == InitSettings /\ [][NextSettings]_vars

\* ------------------------------------- the document list and the viewer

\* The files uploaded in a session with the viewer: PDFs of no, one and two
\* pages without text.
ViewerFiles ==
    { [readable |-> TRUE, pages |-> <<>>],
      [readable |-> TRUE, pages |-> << <<>> >>],
      [readable |-> TRUE, pages |-> << <<>>, <<>> >>] }

\* The value of the "Results to Retrieve" slider in these sessions.
ViewerTopK == TopK + 1

\* Most documents processed in these sessions: one more than MaxDocs,
\* MaxDocs when the file has several pages.
ViewerDocs(file) == IF Len(file.pages) > 1 THEN MaxDocs ELSE MaxDocs + 1

\* The "Process Document" button, pressed for at most ViewerDocs documents.
ProcessNextDocument ==
    /\ next_id <= ViewerDocs(uploaded_file)
    /\ ProcessDocumentHandler

InitViewer ==
    /\ script \in Scripts
    /\ uploaded_file \in ViewerFiles
    /\ chunk_size = DefaultChunkSize
    /\ chunk_overlap = DefaultChunkOverlap
    /\ call_args = [chunk_size |-> 0, chunk_overlap |-> 0]
    /\ pdf_data = NotCalled
    /\ pages_read = 0
    /\ processed_files = <<>>
    /\ current_pdf = 0
    /\ index = {}
    /\ next_id = 1
    /\ log = <<>>
    /\ embed_outcome = "none"
    /\ results = <<>>
    /\ shown = "nothing"
    /\ asked = NotAsked
    /\ query_filter = NoQuery
    /\ query_errors = <<>>
    /\ answer = NoAnswer
    /\ uncaught = FALSE
    /\ ViewerInit(ViewerTopK)
    /\ QuizInit

\* delete_document_from_pinecone(document_id): index.delete removes every
\* vector of the document, or raises and removes nothing.
delete_document_from_pinecone(document_id, raises, idx) ==
    IF raises
    THEN [success |-> FALSE, index |-> idx]
    ELSE [success |-> TRUE,
          index |-> { v \in idx : v.document_id # document_id }]

\* processed_files without the entry of doc_id.
Del(files, doc_id) == [d \in (DOMAIN files) \ {doc_id} |-> files[d]]

\* A delete handler that leaves the active document as it is.
ClearCurrentNever(doc_id) == UNCHANGED activeVars

\* "If deleting the current PDF, clear it" (qna.py); the page shown is left
\* as it is.
ClearCurrent(doc_id) ==
    IF script = "qna" /\ current_pdf = doc_id
    THEN /\ current_pdf' = 0
         /\ current_pdf_name' = "None"
         /\ pdf_bytes' = NoBytes
         /\ UNCHANGED pdf_display_page
    ELSE UNCHANGED activeVars

\* The delete button of a document.
DeleteDocument ==
    /\ \E doc_id \in DOMAIN processed_files, raises \in BOOLEAN :
       \E d \in { delete_document_from_pinecone(doc_id, raises, index) } :
          /\ index' = d.index
          /\ IF d.success
             THEN /\ ClearCurrent(doc_id)
                  /\ processed_files' = Del(processed_files, doc_id)
                  /\ dropped' = dropped \cup {doc_id}
                  /\ ListHandler(<<"delete">>, "deleted")
             ELSE /\ ListHandler(<<"delete_failed">>, "delete_failed")
                  /\ UNCHANGED <<processed_files, dropped, activeVars>>
    /\ UNCHANGED <<script, chunk_size, chunk_overlap, uploaded_file, next_id,
                   top_k, questions, quizVars>>

\* "Clear All Documents": one delete call per document, whose result is
\* ignored; failed holds the documents whose call raised.
ClearAll ==
    /\ DOMAIN processed_files # {}
    /\ \E failed \in SUBSET (DOMAIN processed_files) :
          /\ index' = { v \in index :
                          v.document_id \notin (DOMAIN processed_files) \ failed }
          /\ ListHandler([k \in 1..Cardinality(DOMAIN processed_files) |->
                             IF SortedList(DOMAIN processed_files)[k] \in failed
                             THEN "delete_failed" ELSE "delete"],
                         "cleared")
    /\ processed_files' = <<>>
    /\ dropped' = dropped \cup DOMAIN processed_files
    /\ IF script = "qna"
       THEN /\ current_pdf' = 0
            /\ current_pdf_name' = "None"
            /\ pdf_bytes' = NoBytes
            /\ UNCHANGED pdf_display_page
       ELSE UNCHANGED activeVars
    /\ UNCHANGED <<script, chunk_size, chunk_overlap, uploaded_file, next_id,
                   top_k, questions, quizVars>>

\* Everything the buttons of the viewer leave alone.
viewerFrame == <<script, chunk_size, chunk_overlap, uploaded_file,
                 processed_files, index, next_id, top_k, dropped, questions,
                 quizVars>>

\* The button with a document's name in the document list (qna.py).
OpenDocument ==
    /\ script = "qna"
    /\ \E doc_id \in DOMAIN processed_files :
          SetCurrent(doc_id, processed_files[doc_id].custom_name,
                     processed_files[doc_id].pdf_bytes, 0)
    /\ NoHandler
    /\ UNCHANGED viewerFrame

\* What display_pdf returns: the number of pages, or 0 when an exception was
\* caught (doc[0] of a document without pages raises).
display_pdf(bytes, page) == Len(bytes.pages)

\* "if st.session_state.current_pdf and st.session_state.pdf_bytes:" and
\* "if total_pages > 1:": the page navigation is drawn.
NavigationShown ==
    /\ script = "qna"
    /\ current_pdf # 0
    /\ pdf_bytes # NoBytes
    /\ display_pdf(pdf_bytes, pdf_display_page) > 1

\* "Previous"
PreviousPage ==
    /\ NavigationShown
    /\ pdf_display_page > 0
    /\ pdf_display_page' = pdf_display_page - 1
    /\ NoHandler
    /\ UNCHANGED <<current_pdf, current_pdf_name, pdf_bytes, viewerFrame>>

\* "Next"
NextPage ==
    /\ NavigationShown
    /\ pdf_display_page < display_pdf(pdf_bytes, pdf_display_page) - 1
    /\ pdf_display_page' = pdf_display_page + 1
    /\ NoHandler
    /\ UNCHANGED <<current_pdf, current_pdf_name, pdf_bytes, viewerFrame>>

\* The "Page Navigation" slider moved to another page.
PageSlider ==
    /\ NavigationShown
    /\ \E page_num \in 1..display_pdf(pdf_bytes, pdf_display_page) :
          /\ page_num - 1 # pdf_display_page
          /\ pdf_display_page' = page_num - 1
    /\ NoHandler
    /\ UNCHANGED <<current_pdf, current_pdf_name, pdf_bytes, viewerFrame>>

\* A "Page n" button under "Jump to Referenced Pages".  The run that handles
\* the click asks the question in the box again before it reaches the
\* button; the index and the chat model answer as in the run before.
JumpToPage ==
    /\ script = "qna"
    /\ answer.called
    /\ ~uncaught
    /\ asked.query_option = "Current Document"
    /\ current_pdf \in DOMAIN answer.page_info
    /\ \E k \in 1..Len(answer.page_info[current_pdf].pages) :
          pdf_display_page' = answer.page_info[current_pdf].pages[k]
    /\ UNCHANGED <<current_pdf, current_pdf_name, pdf_bytes, viewerFrame,
                   call_args, pdf_data, pages_read, log, embed_outcome, results,
                   shown, asked, query_filter, query_errors, answer, uncaught>>

NextViewer ==
    \/ ProcessNextDocument
    \/ AskQuestion
    \/ OpenDocument
    \/ DeleteDocument
    \/ ClearAll
    \/ PreviousPage
    \/ NextPage
    \/ PageSlider
    \/ JumpToPage

SpecViewer == InitViewer /\ [][NextViewer]_vars

\* ------------------------------------------------- the quiz of test.py

\* Most questions parse_quiz_response returns, and most answers submitted in
\* a session.
MaxQuestions == 2
MaxSubmissions == 4

\* The option letters of a question.
QuizLetters == {"a", "b"}

\* What parse_quiz_response can return: None (<<>>) or a list of questions,
\* each given by its correct_answer.
QuizResponses ==
    {<<>>} \cup UNION { [1..n -> QuizLetters] : n \in 1..MaxQuestions }

\* Everything test.py does not touch.
documentVars == <<script, chunk_size, chunk_overlap, uploaded_file, call_args,
                  pdf_data, pages_read, processed_files, current_pdf, index,
                  next_id, log, embed_outcome, results, shown, asked,
                  query_filter, query_errors, answer, uncaught, viewerVars>>

InitQuiz ==
    /\ script = "test"
    /\ uploaded_file = [readable |-> FALSE, pages |-> <<>>]
    /\ chunk_size = DefaultChunkSize
    /\ chunk_overlap = DefaultChunkOverlap
    /\ call_args = [chunk_size |-> 0, chunk_overlap |-> 0]
    /\ pdf_data = NotCalled
    /\ pages_read = 0
    /\ SessionInit

\* The last run stopped at quiz_data[current_question_index] with an
\* IndexError: no widget below that line was drawn.
QuizCrashed == rendered >= Len(quiz_data) /\ rendered # -1

\* The quiz block of one run ("if st.session_state.quiz_data and not
\* st.session_state.quiz_answered:"), entered with the given session values;
\* submit is the option chosen when "Submit Answer" is pressed in this run,
\* "none" otherwise.
QuizBlock(data, answered, hint, submit) ==
    IF data = <<>> \/ answered
    THEN /\ rendered' = -1
         /\ quiz_answered' = answered
         /\ hint_shown' = hint
         /\ UNCHANGED <<current_question_index, quiz_results, show_results>>
    ELSE LET first == current_question_index = -1
             i == IF first THEN 0 ELSE current_question_index
             res == IF first THEN <<>> ELSE quiz_results
             show == IF first THEN FALSE ELSE show_results
         IN /\ rendered' = i
            /\ IF i >= Len(data) \/ submit = "none"
               THEN /\ current_question_index' = i
                    /\ quiz_results' = res
                    /\ show_results' = show
                    /\ quiz_answered' = answered
                    /\ hint_shown' = hint
               ELSE LET is_correct == submit = data[i + 1]
                        advance == ~is_correct /\ hint
                        j == IF advance THEN i + 1 ELSE i
                    IN /\ quiz_results' = Append(res, is_correct)
                       /\ hint_shown' = IF is_correct THEN hint ELSE ~hint
                       /\ current_question_index' = j
                       /\ quiz_answered' = (j >= Len(data))
                       /\ show_results' = (show \/ j >= Len(data))

\* "Start Learning" with a topic the agent accepts or rejects.
StartLearning ==
    /\ ~topic_validated
    /\ \E is_valid \in BOOLEAN : topic_validated' = is_valid
    /\ QuizBlock(quiz_data, quiz_answered, hint_shown, "none")
    /\ UNCHANGED <<examples_shown, quiz_data, documentVars>>

\* "Show Me Examples".
ShowExamples ==
    /\ topic_validated
    /\ ~examples_shown
    /\ ~QuizCrashed
    /\ examples_shown' = TRUE
    /\ QuizBlock(quiz_data, quiz_answered, hint_shown, "none")
    /\ UNCHANGED <<topic_validated, quiz_data, documentVars>>

\* "Take Personalized Quiz".
TakeQuiz ==
    /\ topic_validated
    /\ examples_shown
    /\ quiz_data = <<>>
    /\ \E data \in QuizResponses :
          /\ quiz_data' = data
          /\ QuizBlock(data, quiz_answered, hint_shown, "none")
    /\ UNCHANGED <<topic_validated, examples_shown, documentVars>>

\* "Submit Answer" with one of the options chosen.
SubmitAnswer ==
    /\ topic_validated
    /\ quiz_data # <<>>
    /\ ~quiz_answered
    /\ ~QuizCrashed
    /\ Len(quiz_results) < MaxSubmissions
    /\ \E quiz_answer \in QuizLetters :
          QuizBlock(quiz_data, quiz_answered, hint_shown, quiz_answer)
    /\ UNCHANGED <<topic_validated, examples_shown, quiz_data, documentVars>>

\* "Start New Topic": the listed keys are reset, the rerun shows the topic
\* input again.
StartNewTopic ==
    /\ topic_validated
    /\ examples_shown
    /\ ~QuizCrashed
    /\ topic_validated' = FALSE
    /\ examples_shown' = FALSE
    /\ quiz_data' = <<>>
    /\ QuizBlock(<<>>, FALSE, FALSE, "none")
    /\ UNCHANGED documentVars

NextQuiz ==
    StartLearning \/ ShowExamples \/ TakeQuiz \/ SubmitAnswer \/ StartNewTopic

SpecQuiz == InitQuiz /\ [][NextQuiz]_vars

\* ------------------------------------------------------------ properties

Max(a, b) == IF a > b THEN a ELSE b

RECURSIVE TotalLen(_)
\* The number of characters of a list of words.
TotalLen(words) ==
    IF words = <<>> THEN 0 ELSE Len(words[1]) + TotalLen(Tail(words))

CeilDiv(a, b) == (a + b - 1) \div b

\* The words of chunk k of the last chunker call.
ChunkWords(k) == Split(TextOf(script, pdf_data.chunks[k]))

\* The 0-based word index at which chunk k (1-based) begins.
ChunkBegin(k) ==
    (k - 1) * (call_args.chunk_size - call_args.chunk_overlap)

\* Number of words of the document's text that precede page p (0-based), the
\* page headers included.
WordsBefore(doc, p) == Len(Split(PagesText(doc, p)))

\* The largest page whose first word is at or before word index i.
LargestPage(doc, i) ==
    CHOOSE p \in 0..(Len(doc) - 1) :
        /\ WordsBefore(doc, p) <= i
        /\ \A q \in (p + 1)..(Len(doc) - 1) : WordsBefore(doc, q) > i

\* The chunker returned chunks for a configuration with 0 <= overlap < size.
ChunkedOk ==
    /\ pdf_data.ok
    /\ 0 <= call_args.chunk_overlap
    /\ call_args.chunk_overlap < call_args.chunk_size

C2_StartPageIsLargestPage ==
    (script = "qna" /\ ChunkedOk) =>
        \A k \in 1..Len(pdf_data.chunks) :
            pdf_data.chunks[k].start_page =
                LargestPage(uploaded_file.pages, ChunkBegin(k))

\* C3: every chunk's start_page is a valid page index of its document,
\* 0 <= start_page < total_pages.
C3_StartPageValid ==
    (script = "qna" /\ pdf_data.ok) =>
        \A k \in 1..Len(pdf_data.chunks) :
            /\ 0 <= pdf_data.chunks[k].start_page
            /\ pdf_data.chunks[k].start_page < pdf_data.total_pages

\* A chunk of a document of several pages starts on the last page.
C3_Witness ==
    /\ script = "qna"
    /\ pdf_data.ok
    /\ pdf_data.total_pages >= 2
    /\ \E k \in 1..Len(pdf_data.chunks) :
           pdf_data.chunks[k].start_page = pdf_data.total_pages - 1

\* C4: start_page never decreases from one chunk of a document to the next.
C4_StartPageMonotonic ==
    (script = "qna" /\ pdf_data.ok) =>
        \A k \in 1..(Len(pdf_data.chunks) - 1) :
            pdf_data.chunks[k].start_page <= pdf_data.chunks[k + 1].start_page

\* start_page rises between two chunks and further chunks follow, the last
\* of which begins beyond the last entry of page_starts.
C4_Witness ==
    /\ script = "qna"
    /\ pdf_data.ok
    /\ \E k \in 1..(Len(pdf_data.chunks) - 2) :
           pdf_data.chunks[k].start_page < pdf_data.chunks[k + 1].start_page
    /\ LET page_starts == PageStarts(uploaded_file.pages)
           words == Split(pdf_data.text)
       IN ChunkStart(words, ChunkBegin(Len(pdf_data.chunks)))
              >= page_starts[Len(page_starts)]

\* The start pages obtained from one concatenation of the pages' words, in
\* page order, windowed with the same configuration.
RefStartPages ==
    LET doc == uploaded_file.pages
        stride == call_args.chunk_size - call_args.chunk_overlap
        n == Len(Split(PagesText(doc, Len(doc))))
    IN [k \in 1..CeilDiv(n, stride) |-> LargestPage(doc, (k - 1) * stride)]

\* C5: the start pages the chunker assigns are those obtained by
\* concatenating the pages' words once and re-deriving the page boundaries.
C5_NoDrift ==
    (script = "qna" /\ ChunkedOk) =>
        [k \in 1..Len(pdf_data.chunks) |-> pdf_data.chunks[k].start_page]
            = RefStartPages

\* C6: when chunk k has chunk_size words and chunk k+1 has at least o words,
\* the last o words of chunk k are the first o words of chunk k+1.
C6_Overlap ==
    pdf_data.ok =>
        LET s == call_args.chunk_size
            o == call_args.chunk_overlap
        IN \A k \in 1..(Len(pdf_data.chunks) - 1) :
               (Len(ChunkWords(k)) = s /\ Len(ChunkWords(k + 1)) >= o) =>
                   Slice(ChunkWords(k), s - o, s) = Slice(ChunkWords(k + 1), 0, o)

\* Two consecutive chunks share a non-empty overlap.
C6_Witness ==
    /\ pdf_data.ok
    /\ call_args.chunk_overlap >= 2
    /\ \E k \in 1..(Len(pdf_data.chunks) - 1) :
           /\ Len(ChunkWords(k)) = call_args.chunk_size
           /\ Len(ChunkWords(k + 1)) >= call_args.chunk_overlap

\* No page of the uploaded document holds a word.
NoExtractableWords ==
    /\ uploaded_file.readable
    /\ \A p \in 1..Len(uploaded_file.pages) : Split(uploaded_file.pages[p]) = <<>>

\* C7: a document without extractable words (empty pages included) yields an
\* empty chunk list and no error.
C7_NoWordsNoChunks ==
    (pdf_data # NotCalled /\ NoExtractableWords
        /\ 0 <= call_args.chunk_overlap
        /\ call_args.chunk_overlap < call_args.chunk_size) =>
            (pdf_data.ok /\ pdf_data.chunks = <<>>)

\* C8: a configuration with chunk_overlap = chunk_size is rejected before any
\* page text is extracted.
C8_EqualOverlapRejectedFirst ==
    (pdf_data # NotCalled /\ chunk_overlap = chunk_size) =>
        (~pdf_data.ok /\ pages_read = 0)

\* What "Process Document" can display.
ProcessOutcomes == {"extract_error", "index_failed", "processed_ok"}

\* C9: a document processed while the sliders hold chunk_overlap >= chunk_size
\* is rejected before any external call: the stride used is positive, nothing
\* is embedded or upserted and the document is not recorded as indexed.
C9_InvalidConfigNeverIndexed ==
    (shown \in ProcessOutcomes /\ chunk_overlap >= chunk_size) =>
        /\ call_args.chunk_size - call_args.chunk_overlap > 0
        /\ log = <<>>
        /\ shown # "processed_ok"

\* C10: when the question's embedding call raises or returns nothing,
\* query_pinecone returns an empty list and the index is not queried.
C10_NoQueryWithoutEmbedding ==
    embed_outcome \in {"raise", "empty"} =>
        /\ results = <<>>
        /\ \A k \in 1..Len(log) : log[k] # "query"

\* A question was asked against a non-empty index and its embedding failed.
C10_Witness ==
    /\ embed_outcome \in {"raise", "empty"}
    /\ index # {}
    /\ log = <<"embed">>

\* The call c was made by the last handler.
Called(c) == \E k \in 1..Len(log) : log[k] = c

\* The last handler was a question that went to retrieval.
QueryOutcomes ==
    {"answer", "error_answer", "no_info", "no_info_selected", "exception"}

NoInfoOutcomes == {"no_info", "no_info_selected"}

\* C11: a question whose retrieval returned no result (an empty match list,
\* a failed embedding call or a failed index query) ends in the "no relevant
\* information" outcome and makes no generation call; the generation call
\* is made only for a non-empty result list.
C11_NoGenerationWithoutResults ==
    /\ (shown \in QueryOutcomes /\ results = <<>>) =>
            /\ shown \in NoInfoOutcomes
            /\ ~Called("chat")
            /\ answer = NoAnswer
    /\ Called("chat") => results # <<>>

\* The index holds vectors, the query reached it and matched nothing.
C11_Witness ==
    /\ shown \in NoInfoOutcomes
    /\ index # {}
    /\ log = <<"embed", "query">>
    /\ query_errors = <<>>
    /\ results = <<>>

\* C12: a query reaches the index with a filter on exactly the selected
\* document ids whenever the scope is not "All Documents", and without a
\* filter only when the scope is "All Documents".
C12_RestrictedScopeFiltered ==
    query_filter.sent =>
        IF asked.query_option = "All Documents"
        THEN ~query_filter.filtered
        ELSE /\ query_filter.filtered
             /\ query_filter.ids = asked.selected_documents

\* generate_answer returned from a chat call that succeeded.
Answered == answer.called /\ query_errors = <<>> /\ ~uncaught

\* The document ids met in the result list.
ResultDocs == { results[k].document_id : k \in 1..Len(results) }

\* C13: the page_info generate_answer builds has exactly the document ids of
\* the results as keys, and for each of them the distinct start pages of its
\* results in ascending order.
C13_PageInfoGroupsResults ==
    (Answered /\ script = "qna") =>
        /\ DOMAIN answer.page_info = ResultDocs
        /\ \A d \in ResultDocs :
             LET pages == answer.page_info[d].pages
             IN /\ \A i, j \in 1..Len(pages) : i < j => pages[i] < pages[j]
                /\ { pages[i] : i \in 1..Len(pages) } =
                       { StartPage(results[k]) :
                           k \in { j \in 1..Len(results) :
                                     results[j].document_id = d } }

\* Results of two documents, one of them met on a later page first.
C13_Witness ==
    /\ Answered /\ script = "qna"
    /\ Cardinality(ResultDocs) = 2
    /\ \E d \in ResultDocs :
         /\ Len(answer.page_info[d].pages) = 2
         /\ PagesInResultOrder(results, d)[1] > answer.page_info[d].pages[1]

\* Number of positions of seq that hold x.
Occurrences(seq, x) == Cardinality({ k \in 1..Len(seq) : seq[k] = x })

\* The answer after the response text.
Footer ==
    SubSeq(answer.answer, Len(answer.response) + 1, Len(answer.answer))

\* C14: the answer is the chat call's text, unchanged, followed by a footer
\* that begins with "Sources: " and names every distinct source name of the
\* results exactly once.
C14_AnswerIsTextPlusFooter ==
    Answered =>
        /\ Len(answer.answer) > Len(answer.response)
        /\ SubSeq(answer.answer, 1, Len(answer.response)) = answer.response
        /\ Footer[1] = "\n\nSources: "
        /\ \A k \in 1..Len(results) :
             Occurrences(Footer, SourceName(results[k])) = 1

\* Three results of two documents that carry the same name.
C14_Witness ==
    /\ Answered
    /\ Len(results) = 3
    /\ Cardinality(ResultDocs) = 2
    /\ Cardinality({ SourceName(results[k]) : k \in 1..Len(results) }) = 1
    /\ answer.response # <<>>

\* The index query of the last question raised.
QueryFailed == query_filter.sent /\ results = <<>> /\ query_errors # <<>>

\* C15: a question makes the embedding call, the index query and the
\* generation call in that order and each at most once; after a failed
\* embedding call or a failed index query no further call is made and the
\* question ends in the empty outcome.
C15_QueryStateMachine ==
    shown \in QueryOutcomes =>
        /\ log \in { <<"embed">>, <<"embed", "query">>,
                     <<"embed", "query", "chat">> }
        /\ embed_outcome = "raise" =>
               log = <<"embed">> /\ shown \in NoInfoOutcomes
        /\ QueryFailed =>
               log = <<"embed", "query">> /\ shown \in NoInfoOutcomes

\* The index query of a question raised while the index held vectors.
C15_Witness ==
    /\ QueryFailed
    /\ embed_outcome = "ok"
    /\ index # {}
    /\ shown \in NoInfoOutcomes

\* C16: no failure of the embedding call, the index query or the generation
\* call leaves the question handler as an exception: a failed embedding or
\* index query gives an empty result list, a failed generation call gives
\* the fixed error answer.
C16_NoUncaughtException ==
    /\ ~uncaught
    /\ shown # "exception"
    /\ (embed_outcome = "raise" \/ QueryFailed) => results = <<>>
    /\ (answer.called /\ query_errors # <<>>) => answer.answer = ErrorAnswer

\* The generation call of a question raised.
C16_Witness ==
    /\ shown = "error_answer"
    /\ log = <<"embed", "query", "chat">>
    /\ answer.answer = ErrorAnswer

\* C17: a question whose embedding call or index query failed shows the
\* user exactly what a question without matches shows: the "no relevant
\* information" message and nothing else.
C17_FailureLooksLikeNoResult ==
    shown \in NoInfoOutcomes => query_errors = <<>>

\* C18: when extract_text_from_pdf fails the handler makes no embedding call
\* and no upsert, leaves the index as it was and does not record the
\* document in processed_files.
C18_ExtractionFailureAborts ==
    [][shown' = "extract_error" =>
          /\ ~pdf_data'.ok
          /\ log' = <<>>
          /\ index' = index
          /\ processed_files' = processed_files]_vars

\* A second upload whose extraction failed.
C18_Witness ==
    /\ shown = "extract_error"
    /\ ~pdf_data.ok
    /\ next_id > 2

\* The outcomes of the embedding calls of the last handler, one per chunk.
IsEmbedCall(c) == c \in {"embed", "embed_failed"}
EmbedOutcomes == SelectSeq(log, IsEmbedCall)

\* The vectors of the document being stored that the index holds.
StoredVectors == { v \in index : v.document_id = next_id }

\* C19: when store_text_in_pinecone fails, no vector of the document
\* remains in the index.
C19_FailedStoreLeavesNothing ==
    shown = "store_failed" => StoredVectors = {}

\* C20: a chunk whose embedding call failed is the only chunk left out: when
\* no upsert raises, the index holds the vector of every chunk whose
\* embedding call succeeded, and the call returns True.
C20_FailedEmbeddingSkipsOneChunk ==
    (shown \in {"stored", "store_failed"} /\ ~Called("upsert_failed")) =>
        /\ shown = "stored"
        /\ Len(EmbedOutcomes) = Len(pdf_data.chunks)
        /\ StoredVectors =
             { VectorOf(script, [custom_name |-> DocumentNames[next_id]],
                        next_id, k - 1, pdf_data.chunks[k]) :
                 k \in { j \in 1..Len(pdf_data.chunks) :
                           EmbedOutcomes[j] = "embed" } }

\* The embedding call failed for the first chunk of a list of two batches
\* and every other chunk was stored.
C20_Witness ==
    /\ shown = "stored"
    /\ Len(pdf_data.chunks) > BatchSize
    /\ EmbedOutcomes[1] = "embed_failed"
    /\ Cardinality(StoredVectors) = Len(pdf_data.chunks) - 1

\* C21: a document is reported and recorded as processed only if a vector
\* was stored for every one of its chunks.
C21_ProcessedMeansFullyIndexed ==
    shown = "processed_ok" =>
        LET document_id == next_id - 1
        IN /\ document_id \in DOMAIN processed_files
           /\ Cardinality({ v \in index : v.document_id = document_id })
                  = Len(pdf_data.chunks)

\* C23: for 0 <= o < s, chunk k (k = 0, 1, ...) is the words at the indices
\* [k*(s-o), k*(s-o)+s) of the text's words, joined by single spaces, and
\* there is one chunk for every window start below the number of words.
C23_ChunkIsWindow ==
    ChunkedOk =>
        LET words == Split(pdf_data.text)
            n == Len(words)
            s == call_args.chunk_size
            o == call_args.chunk_overlap
        IN /\ Len(pdf_data.chunks) =
                  Cardinality({ k \in 0..n : k * (s - o) < n })
           /\ \A k \in 1..Len(pdf_data.chunks) :
                LET from == (k - 1) * (s - o)
                    window == SubSeq(words, from + 1, Min(from + s, n))
                    text == TextOf(script, pdf_data.chunks[k])
                IN /\ from < n
                   /\ Split(text) = window
                   /\ Len(text) = TotalLen(window) + Len(window) - 1
                   /\ \A c \in 1..Len(text) : text[c] # NL

\* Three chunks or more, the last one shorter than the window.
C23_Witness ==
    /\ ChunkedOk
    /\ call_args.chunk_overlap > 0
    /\ Len(pdf_data.chunks) >= 3
    /\ Len(ChunkWords(1)) = call_args.chunk_size
    /\ Len(ChunkWords(Len(pdf_data.chunks))) < call_args.chunk_size

\* C24: the context handed to the chat call is the text of every result, in
\* result order, with a blank line between two texts.
C24_ContextInResultOrder ==
    answer.called =>
        LET F[k \in 0..Len(results)] ==
                IF k = 0 THEN <<>>
                ELSE F[k - 1] \o (IF k = 1 THEN <<>> ELSE <<NL, NL>>)
                              \o results[k].text
        IN answer.context = F[Len(results)]

\* Three results whose texts are not in alphabetical order.
C24_Witness ==
    /\ answer.called
    /\ Len(results) = 3
    /\ results[1].text = <<"z">>
    /\ results[2].text = <<"x">>
    /\ results[3].text = <<"y">>
    /\ answer.context = <<"z", NL, NL, "x", NL, NL, "y">>

\* C25: every vector store_text_in_pinecone wrote has the id of a chunk
\* position k of the list and carries the text and the start page of the
\* k-th chunk; no two vectors share an id.
C25_IdCarriesItsChunk ==
    shown \in {"stored", "store_failed"} =>
        /\ \A v \in index :
             /\ v.id[1] = next_id
             /\ v.id[2] \in 0..(Len(pdf_data.chunks) - 1)
             /\ v.text = TextOf(script, pdf_data.chunks[v.id[2] + 1])
             /\ script = "qna" =>
                    v.start_page = pdf_data.chunks[v.id[2] + 1].start_page
        /\ \A v, w \in index : v.id = w.id => v = w

\* Three batches were stored and a chunk of the first batch was skipped.
C25_Witness ==
    /\ shown = "stored"
    /\ Len(pdf_data.chunks) > 2 * BatchSize
    /\ EmbedOutcomes[1] = "embed_failed"
    /\ Cardinality(index) = Len(pdf_data.chunks) - 1

\* C26: "Process Document" chunks the uploaded document with the chunk_size
\* and chunk_overlap the sliders show when the button is pressed, not with
\* fixed defaults.
C26_SlidersAreUsed ==
    shown \in ProcessOutcomes =>
        call_args = [chunk_size |-> chunk_size, chunk_overlap |-> chunk_overlap]

\* C30: whenever a run of test.py reaches the question line, the
\* current_question_index it uses is a valid index into the current
\* quiz_data, also for a quiz taken after an earlier quiz was completed.
C30_QuestionIndexValid ==
    rendered # -1 => (0 <= rendered /\ rendered < Len(quiz_data))

\* C22: every document id dropped from processed_files, by the delete button
\* or by "Clear All Documents", has no vector left in the index.
C22_DroppedLeavesNoVectors ==
    \A doc_id \in dropped : \A v \in index : v.document_id # doc_id

\* C27: the active document of qna.py is None or a document in
\* processed_files.
C27_CurrentIsProcessed ==
    current_pdf = 0 \/ current_pdf \in DOMAIN processed_files

\* The active document was deleted while another document stayed.
C27_Witness ==
    /\ script = "qna"
    /\ shown = "deleted"
    /\ current_pdf = 0
    /\ DOMAIN processed_files # {}

\* C29: whenever a document is active in qna.py, pdf_display_page is a valid
\* zero-based page index of it.
C29_PageInRange ==
    (script = "qna" /\ current_pdf \in DOMAIN processed_files) =>
        /\ 0 <= pdf_display_page
        /\ pdf_display_page < processed_files[current_pdf].pages

\* The active document as the viewer holds it.
ActiveDocument == <<current_pdf, current_pdf_name, pdf_bytes>>

====
